---- MODULE Spec2Model ----
(***************************************************************************)
(* BasketStats (js/app.js): the Store (single session object persisted to  *)
(* localStorage), the game Timer whose clock string stamps log entries,    *)
(* the UI controller (selected player, pad team, pending shot) and the     *)
(* global handlers that drive them.                                        *)
(*                                                                         *)
(* Values of the program are modelled as follows.                          *)
(*   - A field that holds a number or null / undefined is the sequence of  *)
(*     the number, empty for null and undefined; an absent key reads as    *)
(*     undefined. The ISO date text of a clock reading is the reading.     *)
(*   - Date.now() is the variable now (a small integer offset).            *)
(*   - A player id (clock in base 36 followed by a random suffix) is an    *)
(*     opaque token that does not collide with the ids of the roster: the  *)
(*     position the player takes in the roster.                            *)
(*   - A localStorage item is NoItem (the key is not set), the empty       *)
(*     string, a string that is not JSON, or the JSON text of a value.     *)
(***************************************************************************)
EXTENDS Integers, Sequences, FiniteSets, TLC

(* ------------------------------ bounds -------------------------------- *)
MaxLoad == 3

(* -------------------------- program constants ------------------------- *)
TimerStart == 600
InitialQuarter == 1

TeamIds == {"home", "visitor"}
ActionKinds == {"fg2m", "fg2a", "fg3m", "fg3a", "ftm", "fta", "orb", "drb",
                "ast", "stl", "blk", "tov", "pf", "ofd"}

(* ------------------------------ inputs -------------------------------- *)
NumberInputs == {"", "7"}
NameInputs == {"Ana"}
TeamNameInputs == {"LAKERS"}
TeamArgs == TeamIds \cup {"away"}
Amounts == {-2, -1, 1}

\* The court click of the shot modal: the position as percentages of the court.
CourtPoints == {[x |-> <<50>>, y |-> <<10>>]}
FieldGoalKinds == {"fg2m", "fg2a", "fg3m", "fg3a"}

\* data, storage: Store.data and the localStorage item. Timer, UI: the two
\* controller objects. cards: the player cards in #activePlayersList.
\* intervals: the handles of the setInterval timers of the page that are not
\* cleared. now: Date.now(). pc: the page is loading, ready, or reloading.
VARIABLES data, storage, Timer, UI, cards, intervals, now, pc, lastCall, adjustCalls

vars == <<data, storage, Timer, UI, cards, intervals, now, pc, lastCall, adjustCalls>>

\* A value that is a number or null / undefined: the sequence of the number,
\* empty for null and for undefined.
Null == << >>
Num(n) == <<n>>

\* extraData: the keys x and y of the object passed to recordAction, here {}.
NoExtra == [x |-> Null, y |-> Null]

(* ------------------------------- Store -------------------------------- *)
createEmptyStats ==
    [pts |-> 0, fg2m |-> 0, fg2a |-> 0, fg3m |-> 0, fg3a |-> 0,
     ftm |-> 0, fta |-> 0, orb |-> 0, drb |-> 0, ast |-> 0, stl |-> 0,
     blk |-> 0, tov |-> 0, pf |-> 0, ofd |-> 0, time |-> 0]

\* The object literal Store.data is bound to when the script is evaluated.
StoreDataLiteral ==
    [gameId |-> Null, date |-> Null,
     teams |-> [home |-> [id |-> "home", name |-> "LOCAL", score |-> 0,
                          fouls |-> 0, color |-> "#000000"],
                visitor |-> [id |-> "visitor", name |-> "VISITANTE", score |-> 0,
                             fouls |-> 0, color |-> "#000000"]],
     players |-> << >>, log |-> << >>,
     quarter |-> InitialQuarter, gameActive |-> FALSE]

\* JSON.stringify: the text of a value. Keys whose value is undefined are
\* left out, which in this representation is the value itself.
JSONstringify(v) == [text |-> "json", value |-> v]

NoItem == [text |-> "null"]
EmptyString == [text |-> ""]
NotJSON == [text |-> "{players:"]

\* if (saved): a missing item and the empty string are falsy.
Truthy(item) == item.text \notin {"null", ""}
\* JSON.parse throws a SyntaxError on a string that is not JSON.
ParseThrows(item) == item.text # "json"
JSONparse(item) == item.value

save(d) == JSONstringify(d)

\* A reset that leaves the roster in place.
reset_keepsRoster(t) ==
    [gameId |-> Num(t), date |-> Num(t),
     teams |-> [home |-> [id |-> "home", name |-> "LOCAL", score |-> 0,
                          fouls |-> 0, color |-> "undefined"],
                visitor |-> [id |-> "visitor", name |-> "VISITANTE", score |-> 0,
                             fouls |-> 0, color |-> "undefined"]],
     players |-> data.players, log |-> << >>,
     quarter |-> InitialQuarter, gameActive |-> FALSE]

reset(t) ==
    [gameId |-> Num(t), date |-> Num(t),
     teams |-> [home |-> [id |-> "home", name |-> "LOCAL", score |-> 0,
                          fouls |-> 0, color |-> "undefined"],
                visitor |-> [id |-> "visitor", name |-> "VISITANTE", score |-> 0,
                             fouls |-> 0, color |-> "undefined"]],
     players |-> << >>, log |-> << >>,
     quarter |-> InitialQuarter, gameActive |-> FALSE]

\* Store.init: the session in memory after startup, given the stored item.
init(d, saved, t) ==
    IF Truthy(saved)
      THEN IF ParseThrows(saved) THEN d ELSE JSONparse(saved)
      ELSE reset(t)

\* What Store.init leaves in localStorage: only the reset branch saves.
initStorage(d, saved, t) ==
    IF Truthy(saved) THEN saved ELSE save(reset(t))

\* players.find(pl => pl.id === id): the index of the first match, 0 if none.
find(players, id) ==
    IF \E i \in 1..Len(players) : players[i].id = id
      THEN CHOOSE i \in 1..Len(players) :
               /\ players[i].id = id
               /\ \A j \in 1..(i - 1) : players[j].id # id
      ELSE 0

FreshId(d) == Len(d.players) + 1

\* The ids a caller passes: those of the roster and one that is not in it.
PlayerIdArgs(d) == 1..(Len(d.players) + 1)

addPlayer(d, id, number, name, teamId) ==
    [d EXCEPT !.players = Append(@, [id |-> id, number |-> number, name |-> name,
                                     team |-> teamId, active |-> FALSE,
                                     stats |-> createEmptyStats])]

togglePlayerActive(d, id) ==
    LET i == find(d.players, id) IN
    IF i # 0 THEN [d EXCEPT !.players[i].active = ~@] ELSE d

\* updateStats, the player's side: what the switch does to player.stats.
playerStats(s, action) ==
    CASE action = "fg2m" -> [s EXCEPT !.fg2m = @ + 1, !.fg2a = @ + 1, !.pts = @ + 2]
      [] action = "fg2a" -> [s EXCEPT !.fg2a = @ + 1]
      [] action = "fg3m" -> [s EXCEPT !.fg3m = @ + 1, !.fg3a = @ + 1, !.pts = @ + 3]
      [] action = "fg3a" -> [s EXCEPT !.fg3a = @ + 1]
      [] action = "ftm" -> [s EXCEPT !.ftm = @ + 1, !.fta = @ + 1, !.pts = @ + 1]
      [] action = "fta" -> [s EXCEPT !.fta = @ + 1]
      [] action = "orb" -> [s EXCEPT !.orb = @ + 1]
      [] action = "drb" -> [s EXCEPT !.drb = @ + 1]
      [] action = "ast" -> [s EXCEPT !.ast = @ + 1]
      [] action = "stl" -> [s EXCEPT !.stl = @ + 1]
      [] action = "blk" -> [s EXCEPT !.blk = @ + 1]
      [] action = "tov" -> [s EXCEPT !.tov = @ + 1]
      [] action = "pf" -> [s EXCEPT !.pf = @ + 1]
      [] action = "ofd" -> [s EXCEPT !.ofd = @ + 1]
      [] OTHER -> s

\* updateStats, the team's side: what the switch does to teams[teamKey].
teamTotals(t, action) ==
    CASE action = "fg2m" -> [t EXCEPT !.score = @ + 2]
      [] action = "fg3m" -> [t EXCEPT !.score = @ + 3]
      [] action = "ftm" -> [t EXCEPT !.score = @ + 1]
      [] action = "pf" -> [t EXCEPT !.fouls = @ + 1]
      [] OTHER -> t

\* A free throw made that adds no point to the player.
updateStats_ftmNoPoint(d, i, action) ==
    LET s == d.players[i].stats
        teamKey == d.players[i].team
    IN [d EXCEPT !.players[i].stats =
                     IF action = "ftm" THEN [playerStats(s, action) EXCEPT !.pts = s.pts]
                                       ELSE playerStats(s, action),
                 !.teams[teamKey] = teamTotals(@, action)]

\* A two-point basket that counts the make but not the attempt.
updateStats_makeNoAttempt(d, i, action) ==
    LET s == d.players[i].stats
        teamKey == d.players[i].team
    IN [d EXCEPT !.players[i].stats =
                     IF action = "fg2m" THEN [playerStats(s, action) EXCEPT !.fg2a = s.fg2a]
                                        ELSE playerStats(s, action),
                 !.teams[teamKey] = teamTotals(@, action)]

\* A three-point basket that adds two points to the team.
updateStats_teamThreeAsTwo(d, i, action) ==
    LET teamKey == d.players[i].team
    IN [d EXCEPT !.players[i].stats = playerStats(@, action),
                 !.teams[teamKey] = IF action = "fg3m" THEN teamTotals(@, "fg2m")
                                                       ELSE teamTotals(@, action)]

\* A steal is also counted as a turnover of the same player.
updateStats_stealAlsoTurnover(d, i, action) ==
    LET teamKey == d.players[i].team
    IN [d EXCEPT !.players[i].stats =
                     IF action = "stl" THEN playerStats(playerStats(@, "stl"), "tov")
                                       ELSE playerStats(@, action),
                 !.teams[teamKey] = teamTotals(@, action)]

updateStats(d, i, action) ==
    LET teamKey == d.players[i].team
    IN [d EXCEPT !.players[i].stats = playerStats(@, action),
                 !.teams[teamKey] = teamTotals(@, action)]

\* Timer.getTimeStr: "MM:SS" as the pair of its two numbers.
getTimeStr(totalSeconds) == <<totalSeconds \div 60, totalSeconds % 60>>

\* The log entry is pushed before the player is looked up.
recordAction_logFirst(d, playerId, actionType, extraData, t, timeStr) ==
    LET i == find(d.players, playerId)
        logEntry == [id |-> t, playerId |-> playerId,
                     team |-> IF i = 0 THEN "undefined" ELSE d.players[i].team,
                     action |-> actionType, quarter |-> d.quarter,
                     gameTime |-> timeStr, x |-> extraData.x, y |-> extraData.y]
        logged == [d EXCEPT !.log = Append(@, logEntry)]
    IN IF i = 0 THEN logged ELSE updateStats(logged, i, actionType)

\* A drawn foul is logged but never reaches updateStats.
recordAction_skipsStats(d, playerId, actionType, extraData, t, timeStr) ==
    LET i == find(d.players, playerId) IN
    IF i = 0 THEN d
    ELSE LET logEntry == [id |-> t, playerId |-> playerId, team |-> d.players[i].team,
                          action |-> actionType, quarter |-> d.quarter,
                          gameTime |-> timeStr, x |-> extraData.x, y |-> extraData.y]
             logged == [d EXCEPT !.log = Append(@, logEntry)]
         IN IF actionType = "ofd" THEN logged ELSE updateStats(logged, i, actionType)

\* The log entry is put first in the log (unshift for push).
recordAction_unshift(d, playerId, actionType, extraData, t, timeStr) ==
    LET i == find(d.players, playerId) IN
    IF i = 0 THEN d
    ELSE LET logEntry == [id |-> t, playerId |-> playerId, team |-> d.players[i].team,
                          action |-> actionType, quarter |-> d.quarter,
                          gameTime |-> timeStr, x |-> extraData.x, y |-> extraData.y]
         IN updateStats([d EXCEPT !.log = <<logEntry>> \o @], i, actionType)

\* extraData is not spread into the log entry.
recordAction_dropsExtra(d, playerId, actionType, extraData, t, timeStr) ==
    LET i == find(d.players, playerId) IN
    IF i = 0 THEN d
    ELSE LET logEntry == [id |-> t, playerId |-> playerId, team |-> d.players[i].team,
                          action |-> actionType, quarter |-> d.quarter,
                          gameTime |-> timeStr, x |-> Null, y |-> Null]
         IN updateStats([d EXCEPT !.log = Append(@, logEntry)], i, actionType)

recordAction(d, playerId, actionType, extraData, t, timeStr) ==
    LET i == find(d.players, playerId) IN
    IF i = 0 THEN d
    ELSE LET logEntry == [id |-> t, playerId |-> playerId, team |-> d.players[i].team,
                          action |-> actionType, quarter |-> d.quarter,
                          gameTime |-> timeStr, x |-> extraData.x, y |-> extraData.y]
         IN updateStats([d EXCEPT !.log = Append(@, logEntry)], i, actionType)

\* The early return of recordAction: nothing is saved when no player matches.
recordActionSaves(d, playerId) == find(d.players, playerId) # 0

\* What a Store operation or a global handler hands back to its caller: none
\* has a return value and none throws, the early returns included.
Returned == "undefined"

\* The score is not floored at 0.
adjustScore_noFloor(d, team, amount) ==
    IF team \in DOMAIN d.teams
      THEN [d EXCEPT !.teams[team].score = @ + amount]
      ELSE d

\* window.adjustScore up to its save.
adjustScore(d, team, amount) ==
    IF team \in DOMAIN d.teams
      THEN LET s == d.teams[team].score + amount IN
           [d EXCEPT !.teams[team].score = IF s < 0 THEN 0 ELSE s]
      ELSE d

setTeamName(d, team, value) == [d EXCEPT !.teams[team].name = value]

\* UI.renderStatsTable: the rows of the live table, the players of the team
\* in roster order.
liveTable(d, teamId) ==
    LET OfTeam(p) == p.team = teamId IN SelectSeq(d.players, OfTeam)

(* ------------------------------- Timer -------------------------------- *)
TimerLiteral == [totalSeconds |-> TimerStart, interval |-> Null, isRunning |-> FALSE]

\* setInterval hands out a handle that no live timer of the page holds.
setInterval(live) == CHOOSE h \in 1..(Cardinality(live) + 1) : h \notin live

\* clearInterval(handle): null and a handle already cleared clear nothing.
clearInterval(live, handle) == {h \in live : <<h>> # handle}

\* Timer.start() without the isRunning guard.
timerStart_noGuard(tm, live) ==
    [tm EXCEPT !.isRunning = TRUE, !.interval = Num(setInterval(live))]

\* Timer.start(): the Timer object after the call.
timerStart(tm, live) ==
    IF tm.isRunning THEN tm
    ELSE [tm EXCEPT !.isRunning = TRUE, !.interval = Num(setInterval(live))]

\* Timer.start(): the live timers of the page after the call.
timerStartLive(tm, live) == IF timerStart(tm, live) = tm THEN live
                            ELSE live \cup {timerStart(tm, live).interval[1]}

\* Timer.stop().
timerStop(tm) == [tm EXCEPT !.isRunning = FALSE]
timerStopLive(tm, live) == clearInterval(live, tm.interval)

\* The callback Timer.start() hands to setInterval.
timerTick(tm) ==
    IF tm.totalSeconds > 0 THEN [tm EXCEPT !.totalSeconds = @ - 1] ELSE timerStop(tm)
timerTickLive(tm, live) ==
    IF tm.totalSeconds > 0 THEN live ELSE timerStopLive(tm, live)

(* --------------------------------- UI --------------------------------- *)
UILiteral == [selectedPlayerId |-> Null, activeTeamForPad |-> "home",
              pendingShotAction |-> "null"]

\* UI.renderActivePlayers: a card for each player on court of the pad team.
renderActivePlayers(d, teamId) ==
    {d.players[i].id : i \in {j \in 1..Len(d.players) :
                                 d.players[j].active /\ d.players[j].team = teamId}}

\* UI.setActiveTeam up to its rendering.
setActiveTeam_keepsSelection(ui, teamId) == [ui EXCEPT !.activeTeamForPad = teamId]

setActiveTeam(ui, teamId) ==
    [ui EXCEPT !.activeTeamForPad = teamId, !.selectedPlayerId = Null]

\* UI.selectPlayer up to its rendering.
selectPlayer(ui, id) == [ui EXCEPT !.selectedPlayerId = Num(id)]

\* UI.openShotModal.
openShotModal(ui, action) ==
    IF ui.selectedPlayerId = Null THEN ui ELSE [ui EXCEPT !.pendingShotAction = action]

\* UI.processAction: whether it calls Store.recordAction, and the session
\* after it.
processActionCalls(ui) == ui.selectedPlayerId # Null
processAction(d, ui, action, extraData, t, timeStr) ==
    IF processActionCalls(ui)
      THEN recordAction(d, ui.selectedPlayerId[1], action, extraData, t, timeStr)
      ELSE d

(* ------------------------------ actions ------------------------------- *)
\* The size of the explored session: the players of the roster, those on
\* court, the log entries, the manual score adjustments since the last reset,
\* the renamed teams, the clock readings elapsed, a pending shot and the pad
\* switched to the visitor. The operations that grow it are explored while it
\* is below MaxLoad.
OnCourt(d) == Cardinality({i \in 1..Len(d.players) : d.players[i].active})
Renamed(d) == Cardinality({t \in TeamIds : d.teams[t].name # StoreDataLiteral.teams[t].name})
Pending(ui) == IF ui.pendingShotAction = "null" THEN 0 ELSE 1
PadSwitched(ui) == IF ui.activeTeamForPad = UILiteral.activeTeamForPad THEN 0 ELSE 1
Load ==
    Len(data.players) + OnCourt(data) + Len(data.log) + adjustCalls + Renamed(data) + now
    + Pending(UI) + PadSwitched(UI)

\* lastCall: the operation that ran last, whether its lookup (of the player,
\* of the team) found its target, and what it handed back.
Call(op, found) == [op |-> op, found |-> found, result |-> Returned]

Init ==
    /\ data = StoreDataLiteral
    /\ storage = NoItem
    /\ Timer = TimerLiteral
    /\ UI = UILiteral
    /\ cards = {}
    /\ intervals = {}
    /\ now = 0
    /\ pc = "loading"
    /\ lastCall = Call("load", TRUE)
    /\ adjustCalls = 0

\* DOMContentLoaded: Store.init(), Timer.init(), UI.init().
DOMContentLoaded ==
    /\ pc = "loading"
    /\ data' = init(data, storage, now)
    /\ storage' = initStorage(data, storage, now)
    /\ pc' = "ready"
    /\ lastCall' = Call("init", TRUE)
    /\ cards' = renderActivePlayers(data', UI.activeTeamForPad)
    /\ UNCHANGED <<Timer, UI, intervals, now, adjustCalls>>

\* The page is loaded again: the script is evaluated afresh; localStorage stays.
PageReload ==
    /\ pc \in {"ready", "reloading"}
    /\ data' = StoreDataLiteral
    /\ Timer' = TimerLiteral
    /\ UI' = UILiteral
    /\ cards' = {}
    /\ intervals' = {}
    /\ pc' = "loading"
    /\ lastCall' = Call("load", TRUE)
    /\ UNCHANGED <<storage, now, adjustCalls>>

\* window.resetGame, confirmed: Store.reset() then location.reload().
ResetGame ==
    /\ pc = "ready"
    /\ data' = reset(now)
    /\ storage' = save(data')
    /\ pc' = "reloading"
    /\ lastCall' = Call("reset", TRUE)
    /\ adjustCalls' = 0
    /\ UNCHANGED <<Timer, UI, cards, intervals, now>>

\* window.addPlayer: the form's number and name must be non-empty.
AddPlayer(num, name, teamId) ==
    /\ pc = "ready"
    /\ Load < MaxLoad
    /\ IF num # "" /\ name # ""
         THEN /\ data' = addPlayer(data, FreshId(data), num, name, teamId)
              /\ storage' = save(data')
              /\ lastCall' = Call("addPlayer", TRUE)
         ELSE UNCHANGED <<data, storage, lastCall>>
    /\ UNCHANGED <<Timer, UI, cards, intervals, now, pc, adjustCalls>>

\* togglePlayerActive without its save.
ToggleCourt_noSave(id) ==
    /\ pc = "ready"
    /\ OnCourt(togglePlayerActive(data, id)) > OnCourt(data) => Load < MaxLoad
    /\ data' = togglePlayerActive(data, id)
    /\ lastCall' = Call("togglePlayerActive", find(data.players, id) # 0)
    /\ cards' = renderActivePlayers(data', UI.activeTeamForPad)
    /\ UNCHANGED <<storage, Timer, UI, intervals, now, pc, adjustCalls>>

\* window.toggleCourt(id), the onclick of a roster row's button, calls
\* Store.togglePlayerActive(id), which saves when it finds the player, and
\* renders the roster and the cards again.
ToggleCourt(id) ==
    /\ pc = "ready"
    /\ OnCourt(togglePlayerActive(data, id)) > OnCourt(data) => Load < MaxLoad
    /\ data' = togglePlayerActive(data, id)
    /\ storage' = IF find(data.players, id) # 0 THEN save(data') ELSE storage
    /\ lastCall' = Call("togglePlayerActive", find(data.players, id) # 0)
    /\ cards' = renderActivePlayers(data', UI.activeTeamForPad)
    /\ UNCHANGED <<Timer, UI, intervals, now, pc, adjustCalls>>

\* Store.recordAction(playerId, actionType, extraData).
RecordAction(playerId, actionType, extraData) ==
    /\ pc = "ready"
    /\ find(data.players, playerId) # 0 => Load < MaxLoad
    /\ data' = recordAction(data, playerId, actionType, extraData, now,
                            getTimeStr(Timer.totalSeconds))
    /\ storage' = IF recordActionSaves(data, playerId) THEN save(data') ELSE storage
    /\ lastCall' = Call("recordAction", find(data.players, playerId) # 0)
    /\ UNCHANGED <<Timer, UI, cards, intervals, now, pc, adjustCalls>>

\* window.adjustScore(team, amount).
AdjustScore(team, amount) ==
    /\ pc = "ready"
    /\ team \in DOMAIN data.teams => Load < MaxLoad
    /\ data' = adjustScore(data, team, amount)
    /\ storage' = IF team \in DOMAIN data.teams THEN save(data') ELSE storage
    /\ adjustCalls' = IF team \in DOMAIN data.teams THEN adjustCalls + 1 ELSE adjustCalls
    /\ lastCall' = Call("adjustScore", team \in DOMAIN data.teams)
    /\ UNCHANGED <<Timer, UI, cards, intervals, now, pc>>

\* The input listeners of the two team name fields.
TeamNameInput(team, value) ==
    /\ pc = "ready"
    /\ Renamed(setTeamName(data, team, value)) > Renamed(data) => Load < MaxLoad
    /\ data' = setTeamName(data, team, value)
    /\ storage' = save(data')
    /\ lastCall' = Call("teamName", TRUE)
    /\ UNCHANGED <<Timer, UI, cards, intervals, now, pc, adjustCalls>>

\* Store.save() with no mutation before it.
StoreSave ==
    /\ pc = "ready"
    /\ storage' = save(data)
    /\ lastCall' = Call("save", TRUE)
    /\ UNCHANGED <<data, Timer, UI, cards, intervals, now, pc, adjustCalls>>

\* The wall clock read by Date.now() advances.
ClockAdvance ==
    /\ Load < MaxLoad
    /\ now' = now + 1
    /\ UNCHANGED <<data, storage, Timer, UI, cards, intervals, pc, lastCall, adjustCalls>>

\* The team buttons of the action pad: window.setActiveTeam(teamId).
SetActiveTeam(teamId) ==
    /\ pc = "ready"
    /\ PadSwitched(setActiveTeam(UI, teamId)) > PadSwitched(UI) => Load < MaxLoad
    /\ UI' = setActiveTeam(UI, teamId)
    /\ cards' = renderActivePlayers(data, teamId)
    /\ UNCHANGED <<data, storage, Timer, intervals, now, pc, lastCall, adjustCalls>>

\* The onclick of a rendered player card: UI.selectPlayer(id).
SelectPlayer(id) ==
    /\ pc = "ready"
    /\ id \in cards
    /\ UI' = selectPlayer(UI, id)
    /\ cards' = renderActivePlayers(data, UI.activeTeamForPad)
    /\ UNCHANGED <<data, storage, Timer, intervals, now, pc, lastCall, adjustCalls>>

\* The click listener of the action pad's buttons: a field-goal kind opens
\* the shot modal, any other kind goes to UI.processAction with no extraData.
ActionPadClick(action) ==
    /\ pc = "ready"
    /\ IF action \in FieldGoalKinds
         THEN /\ Pending(openShotModal(UI, action)) > Pending(UI) => Load < MaxLoad
              /\ UI' = openShotModal(UI, action)
              /\ UNCHANGED <<data, storage, lastCall>>
         ELSE /\ processActionCalls(UI) /\ recordActionSaves(data, UI.selectedPlayerId[1])
                    => Load < MaxLoad
              /\ data' = processAction(data, UI, action, NoExtra, now,
                                       getTimeStr(Timer.totalSeconds))
              /\ IF processActionCalls(UI)
                   THEN /\ storage' = IF recordActionSaves(data, UI.selectedPlayerId[1])
                                        THEN save(data') ELSE storage
                        /\ lastCall' = Call("recordAction",
                                            recordActionSaves(data, UI.selectedPlayerId[1]))
                   ELSE UNCHANGED <<storage, lastCall>>
              /\ UNCHANGED UI
    /\ UNCHANGED <<Timer, cards, intervals, now, pc, adjustCalls>>

\* The click listener of the court in the shot modal: with a shot pending,
\* UI.processAction(pendingShotAction, {x, y}), then the pending shot is
\* forgotten (the log entry takes its place in the explored size).
CourtClick(point) ==
    /\ pc = "ready"
    /\ IF UI.pendingShotAction = "null"
         THEN UNCHANGED <<data, storage, lastCall, UI>>
         ELSE /\ data' = processAction(data, UI, UI.pendingShotAction, point, now,
                                       getTimeStr(Timer.totalSeconds))
              /\ IF processActionCalls(UI)
                   THEN /\ storage' = IF recordActionSaves(data, UI.selectedPlayerId[1])
                                        THEN save(data') ELSE storage
                        /\ lastCall' = Call("recordAction",
                                            recordActionSaves(data, UI.selectedPlayerId[1]))
                   ELSE UNCHANGED <<storage, lastCall>>
              /\ UI' = [UI EXCEPT !.pendingShotAction = "null"]
    /\ UNCHANGED <<Timer, cards, intervals, now, pc, adjustCalls>>

\* The kinds a call or a click is explored with. A call of recordAction that
\* finds no player, and a click on the pad with no player selected, return
\* before the kind is recorded: one field-goal kind and one other kind stand
\* for the fourteen, which all give the same step.
KindsTried(recording) == IF recording THEN ActionKinds ELSE {"fg2m", "pf"}

Next ==
    \/ DOMContentLoaded
    \/ PageReload
    \/ ResetGame
    \/ \E num \in NumberInputs, name \in NameInputs, teamId \in TeamIds :
          AddPlayer(num, name, teamId)
    \/ \E i \in 1..Len(data.players) : ToggleCourt(data.players[i].id)
    \/ \E id \in PlayerIdArgs(data) :
          \E a \in KindsTried(find(data.players, id) # 0) : RecordAction(id, a, NoExtra)
    \/ \E team \in TeamArgs, amount \in Amounts : AdjustScore(team, amount)
    \/ \E team \in TeamIds, value \in TeamNameInputs : TeamNameInput(team, value)
    \/ StoreSave
    \/ ClockAdvance
    \/ \E teamId \in TeamIds : SetActiveTeam(teamId)
    \/ \E id \in cards : SelectPlayer(id)
    \/ \E a \in KindsTried(UI.selectedPlayerId # Null) : ActionPadClick(a)
    \/ \E point \in CourtPoints : CourtClick(point)

\* First launch: nothing is stored yet; every later snapshot is one the program
\* wrote.
Spec == Init /\ [][Next]_vars

(* ------------------------------ the clock ------------------------------ *)
\* The click listener of #timerBtn: Timer.toggle().
TimerToggle ==
    /\ pc = "ready"
    /\ IF Timer.isRunning
         THEN Timer' = timerStop(Timer) /\ intervals' = timerStopLive(Timer, intervals)
         ELSE Timer' = timerStart(Timer, intervals)
              /\ intervals' = timerStartLive(Timer, intervals)
    /\ lastCall' = Call("Timer.toggle", TRUE)
    /\ UNCHANGED <<data, storage, UI, cards, now, pc, adjustCalls>>

\* Timer.start() called in any state of the Timer.
TimerStartCall ==
    /\ pc = "ready"
    /\ Timer' = timerStart(Timer, intervals)
    /\ intervals' = timerStartLive(Timer, intervals)
    /\ lastCall' = Call("Timer.start", TRUE)
    /\ UNCHANGED <<data, storage, UI, cards, now, pc, adjustCalls>>

\* Timer.stop() called in any state of the Timer.
TimerStopCall ==
    /\ pc = "ready"
    /\ Timer' = timerStop(Timer)
    /\ intervals' = timerStopLive(Timer, intervals)
    /\ lastCall' = Call("Timer.stop", TRUE)
    /\ UNCHANGED <<data, storage, UI, cards, now, pc, adjustCalls>>

\* A second has passed on a live interval: its callback runs.
TimerTick(handle) ==
    /\ pc = "ready"
    /\ handle \in intervals
    /\ Timer' = timerTick(Timer)
    /\ intervals' = timerTickLive(Timer, intervals)
    /\ lastCall' = Call("Timer.tick", TRUE)
    /\ UNCHANGED <<data, storage, UI, cards, now, pc, adjustCalls>>

\* The page with only its clock driven: the button, Timer.start() and
\* Timer.stop() called directly, and the seconds passing, from the full
\* period down to 0:00. No handler but these writes the Timer, and none of
\* these writes the session.
NextTimer ==
    \/ DOMContentLoaded
    \/ PageReload
    \/ TimerToggle
    \/ TimerStartCall
    \/ TimerStopCall
    \/ \E handle \in intervals : TimerTick(handle)

SpecTimer == Init /\ [][NextTimer]_vars

(* ----------------------- startup from any stored item ------------------ *)
\* A stored session that parses but is no valid session: its only player has
\* five points and no made shot.
InconsistentSession ==
    [reset(0) EXCEPT !.players =
        <<[id |-> 1, number |-> "7", name |-> "Ana", team |-> "home", active |-> FALSE,
           stats |-> [createEmptyStats EXCEPT !.pts = 5]]>>]

\* What localStorage may hold under the key when the page is opened: nothing,
\* the empty string, text that is not JSON, JSON of a fresh session, JSON of
\* an inconsistent one.
StoredItems ==
    {NoItem, EmptyString, NotJSON, JSONstringify(reset(0)),
     JSONstringify(InconsistentSession)}

InitRestore ==
    /\ data = StoreDataLiteral
    /\ storage \in StoredItems
    /\ Timer = TimerLiteral
    /\ UI = UILiteral
    /\ cards = {}
    /\ intervals = {}
    /\ now = 0
    /\ pc = "loading"
    /\ lastCall = Call("load", TRUE)
    /\ adjustCalls = 0

SpecRestore == InitRestore /\ [][Next]_vars

(* ------------------------------- claims ------------------------------- *)
Roster == 1..Len(data.players)

RECURSIVE SumPts(_, _)
SumPts(players, team) ==
    IF players = << >> THEN 0
    ELSE (IF Head(players).team = team THEN Head(players).stats.pts ELSE 0)
         + SumPts(Tail(players), team)

\* The session with every aggregate zeroed and the ledger emptied.
Zeroed(d) ==
    [d EXCEPT !.players = [i \in 1..Len(d.players) |->
                              [d.players[i] EXCEPT !.stats = createEmptyStats]],
              !.log = << >>]

\* The ledger folded through the reducer, in ledger order.
RECURSIVE Replay(_, _)
Replay(d, log) ==
    IF log = << >> THEN d
    ELSE LET i == find(d.players, Head(log).playerId) IN
         Replay(IF i = 0 THEN d ELSE updateStats(d, i, Head(log).action), Tail(log))

PointsIdentity(s) == s.pts = 2 * s.fg2m + 3 * s.fg3m + s.ftm
MakesWithinAttempts(s) == s.fg2m <= s.fg2a /\ s.fg3m <= s.fg3a /\ s.ftm <= s.fta

ValidSession(d) ==
    /\ \A i \in 1..Len(d.players) :
          PointsIdentity(d.players[i].stats) /\ MakesWithinAttempts(d.players[i].stats)
    /\ \A k \in 1..Len(d.log) : find(d.players, d.log[k].playerId) # 0
    /\ \A t \in TeamIds : d.teams[t].score >= 0 /\ d.teams[t].fouls >= 0
    /\ d.quarter >= 1

FreshSession(d) ==
    /\ d.players = << >>
    /\ d.log = << >>
    /\ d.quarter = 1
    /\ \A t \in TeamIds : d.teams[t].score = 0 /\ d.teams[t].fouls = 0

ValidSnapshot(item) ==
    Truthy(item) /\ ~ParseThrows(item) /\ ValidSession(JSONparse(item))

UnknownPlayerCall == lastCall.op = "recordAction" /\ ~lastCall.found

MutatingCalls ==
    {"reset", "addPlayer", "togglePlayerActive", "recordAction", "adjustScore", "teamName"}

\* C1: in every reachable state every player of the roster has
\* pts = 2*fg2m + 3*fg3m + ftm.
C1_PointsIdentity == \A i \in Roster : PointsIdentity(data.players[i].stats)

\* A player with one two-point and one three-point basket.
C1_Witness ==
    \E i \in Roster : data.players[i].stats.fg2m = 1 /\ data.players[i].stats.fg3m = 1

\* C2: in every reachable state every player's makes do not exceed the
\* attempts: fg2m <= fg2a, fg3m <= fg3a, ftm <= fta.
C2_MakesWithinAttempts == \A i \in Roster : MakesWithinAttempts(data.players[i].stats)

\* A player with a made and a missed shot of the same kind.
C2_Witness ==
    \E i \in Roster : data.players[i].stats.fg2m = 1 /\ data.players[i].stats.fg2a = 2

\* C3: while adjustScore has not been called on a team since the last reset,
\* each team's score is the sum of the points of its players.
C3_ScoreIsSumOfPoints ==
    adjustCalls = 0 => \A t \in TeamIds : data.teams[t].score = SumPts(data.players, t)

\* A team of two players that has scored, its score never adjusted.
C3_Witness ==
    /\ adjustCalls = 0
    /\ \E t \in TeamIds : /\ data.teams[t].score > 0
                          /\ Len(liveTable(data, t)) = 2

C5_SequenceIdsStrictlyIncreasing ==
    \A j, k \in 1..Len(data.log) : j < k => data.log[j].id < data.log[k].id

\* C6: folding the ledger in ledger order through the reducer, from zeroed
\* aggregates, yields every player's current stats.
C6_ReplayReproducesAggregates ==
    \A i \in Roster :
        Replay(Zeroed(data), data.log).players[i].stats = data.players[i].stats

\* Two ledger entries and a player who has scored.
C6_Witness ==
    /\ Len(data.log) = 2
    /\ \E i \in Roster : data.players[i].stats.pts > 0

\* C7: startup restores the stored session when it is a valid one and else
\* continues with a fresh empty session.
C7_RestoreValidOrFresh ==
    [][(pc = "loading" /\ pc' = "ready") =>
         IF ValidSnapshot(storage) THEN data' = JSONparse(storage)
                                   ELSE FreshSession(data')]_vars

\* C8: after every completed mutating operation the snapshot is the text of
\* the whole session in memory, and a save while the snapshot is that text
\* leaves it as it is.
C8_SnapshotIsWholeState ==
    /\ []((lastCall.op \in MutatingCalls /\ lastCall.found) =>
             (~ParseThrows(storage) /\ JSONparse(storage) = data))
    /\ [][(lastCall'.op = "save" /\ storage = JSONstringify(data)) =>
             storage' = storage]_vars

\* A player was put on court and the snapshot holds the player on court.
C8_Witness ==
    /\ lastCall.op = "togglePlayerActive"
    /\ ~ParseThrows(storage)
    /\ \E i \in 1..Len(JSONparse(storage).players) : JSONparse(storage).players[i].active

\* C9: after reset the session is fresh and empty: no ledger entry, no
\* player, no row in either live table, period 1, scores and fouls 0.
C9_ResetGivesFreshSession ==
    lastCall.op = "reset" =>
        /\ FreshSession(data)
        /\ \A t \in TeamIds : liveTable(data, t) = << >>

\* reset has run after the clock advanced past the first session's start.
C9_Witness == lastCall.op = "reset" /\ data.gameId = Num(1)

\* C10: no team score is ever negative; adjustScore(team, amount) on home or
\* visitor sets that score to max(0, score + amount) and nothing else of the
\* session, and on any other team id changes nothing.
C10_ScoreFlooredAtZero ==
    /\ [](\A t \in TeamIds : data.teams[t].score >= 0)
    /\ [][lastCall'.op = "adjustScore" =>
            \A team \in TeamArgs, amount \in Amounts :
              AdjustScore(team, amount) =>
                IF team \in TeamIds
                  THEN data' = [data EXCEPT !.teams[team].score =
                                   IF @ + amount > 0 THEN @ + amount ELSE 0]
                  ELSE data' = data /\ storage' = storage]_vars

\* The one adjustment since the reset was a decrement of a score of 0, which
\* stayed 0.
C10_Witness ==
    /\ lastCall.op = "adjustScore" /\ lastCall.found
    /\ adjustCalls = 1
    /\ \A t \in TeamIds : data.teams[t].score = 0 /\ SumPts(data.players, t) = 0

\* The scoring table: what one action of a kind adds to a field of the acting
\* player's row, and to a total of the player's team.
RowAdds(kind, field) ==
    CASE kind = "fg2m" /\ field = "pts" -> 2
      [] kind = "fg3m" /\ field = "pts" -> 3
      [] kind = "ftm" /\ field = "pts" -> 1
      [] kind = "fg2m" /\ field = "fg2a" -> 1
      [] kind = "fg3m" /\ field = "fg3a" -> 1
      [] kind = "ftm" /\ field = "fta" -> 1
      [] kind = field -> 1
      [] OTHER -> 0

TeamAdds(kind, total) ==
    CASE total = "score" -> RowAdds(kind, "pts")
      [] total = "fouls" /\ kind = "pf" -> 1
      [] OTHER -> 0

\* A handler of the loaded page appended one entry to the ledger.
Recorded == pc = "ready" /\ Len(data'.log) = Len(data.log) + 1

\* C11: an action recorded for a player of the roster adds to the fields of
\* that player's row what the scoring table gives for its kind and leaves
\* the other fields as they are; it adds the points of a made shot to the
\* score, and 1 for a personal foul to the fouls, of the player's team, and
\* it changes no other player and nothing of the other team.
C11_ExactlyTheRowOfTheKind ==
    [][Recorded =>
         LET entry == data'.log[Len(data'.log)]
             i == find(data.players, entry.playerId)
         IN /\ i # 0
            /\ entry.action \in ActionKinds
            /\ Len(data'.players) = Len(data.players)
            /\ \A j \in 1..Len(data.players) :
                  IF j = i
                    THEN /\ \A f \in DOMAIN createEmptyStats :
                              data'.players[j].stats[f] =
                                data.players[j].stats[f] + RowAdds(entry.action, f)
                         /\ [data'.players[j] EXCEPT !.stats = createEmptyStats]
                              = [data.players[j] EXCEPT !.stats = createEmptyStats]
                    ELSE data'.players[j] = data.players[j]
            /\ \A t \in TeamIds :
                  IF t = data.players[i].team
                    THEN data'.teams[t] =
                           [data.teams[t] EXCEPT
                              !.score = @ + TeamAdds(entry.action, "score"),
                              !.fouls = @ + TeamAdds(entry.action, "fouls")]
                    ELSE data'.teams[t] = data.teams[t]]_vars

\* Each team has a player; a personal foul was recorded last, for a player
\* whose team now has one foul while the other team has none.
C11_Witness ==
    /\ lastCall.op = "recordAction" /\ lastCall.found
    /\ data.log # << >>
    /\ data.log[Len(data.log)].action = "pf"
    /\ \E i, j \in Roster :
          /\ data.players[i].id = data.log[Len(data.log)].playerId
          /\ data.players[i].stats.pf = 1
          /\ data.teams[data.players[i].team].fouls = 1
          /\ data.players[j].team # data.players[i].team
          /\ data.teams[data.players[j].team].fouls = 0

\* The entry has the keys x and y.
Located(entry) == entry.x # Null /\ entry.y # Null

\* C12: the entry a handler appends to the ledger has coordinates exactly
\* when its kind is a field goal and the handler is the court click, and the
\* coordinates are those of the click; a field goal recorded any other way is
\* appended without coordinates; no entry of the ledger has one coordinate
\* without the other, or coordinates and a kind that is no field goal.
C12_CoordinatesIffCourtClick ==
    /\ [](\A k \in 1..Len(data.log) :
            /\ (data.log[k].x # Null) = (data.log[k].y # Null)
            /\ Located(data.log[k]) => data.log[k].action \in FieldGoalKinds)
    /\ [][Recorded =>
            LET entry == data'.log[Len(data'.log)] IN
            /\ Located(entry) =
                  (/\ entry.action \in FieldGoalKinds
                   /\ \E point \in CourtPoints : CourtClick(point))
            /\ \A point \in CourtPoints :
                  CourtClick(point) => entry.x = point.x /\ entry.y = point.y]_vars

\* The ledger holds a field goal with the coordinates of a court click and a
\* field goal recorded without a location.
C12_Witness ==
    \E j, k \in 1..Len(data.log) :
        /\ Located(data.log[j]) /\ data.log[j].action \in FieldGoalKinds
        /\ ~Located(data.log[k]) /\ data.log[k].action \in FieldGoalKinds

IsPrefix(s, t) == Len(s) <= Len(t) /\ SubSeq(t, 1, Len(s)) = s

\* The step is a call of Store.recordAction(id, kind, ...) for a player of
\* the roster: the call itself, the action pad's click on a kind that is no
\* field goal with the player selected, or the court click with the kind
\* pending and the player selected.
KnownPlayerRecord(id, kind) ==
    /\ find(data.players, id) # 0
    /\ \/ RecordAction(id, kind, NoExtra)
       \/ /\ UI.selectedPlayerId = Num(id)
          /\ \/ kind \notin FieldGoalKinds /\ ActionPadClick(kind)
             \/ UI.pendingShotAction = kind /\ \E point \in CourtPoints : CourtClick(point)

\* What every such step does besides recording: Store.recordAction was the
\* last Store operation and found its player, and the handlers around it
\* touch neither the Timer, the cards, the clock nor the selection.
RecordCallFrame ==
    /\ lastCall' = Call("recordAction", TRUE)
    /\ UI'.selectedPlayerId = UI.selectedPlayerId
    /\ UNCHANGED <<Timer, cards, intervals, now, pc, adjustCalls>>

\* C13: a step of the loaded page other than the reset leaves the entries of
\* the ledger as they are and in their order, appending at most one; a
\* recordAction for a player of the roster appends exactly one entry, with
\* that player's id, a player of the roster, and that player's team; and the
\* ledger in the snapshot is the ledger in memory, so that loading the page
\* again brings the same ledger back.
C13_LedgerAppendOnly ==
    /\ [](pc = "ready" => ~ParseThrows(storage) /\ JSONparse(storage).log = data.log)
    /\ [][(pc = "ready" /\ pc' = "ready") =>
            /\ IsPrefix(data.log, data'.log)
            /\ Len(data'.log) <= Len(data.log) + 1
            /\ RecordCallFrame =>
                  \A id \in PlayerIdArgs(data), kind \in ActionKinds :
                    KnownPlayerRecord(id, kind) =>
                      LET entry == data'.log[Len(data'.log)]
                          i == find(data'.players, id)
                      IN /\ Recorded
                         /\ entry.playerId = id /\ entry.action = kind
                         /\ i # 0 /\ entry.team = data'.players[i].team]_vars

\* The second of two entries with different kinds was appended last.
C13_Witness ==
    /\ lastCall.op = "recordAction" /\ lastCall.found
    /\ Len(data.log) = 2
    /\ data.log[1].action # data.log[2].action
    /\ \A k \in 1..2 : find(data.players, data.log[k].playerId) # 0

\* C14: however the clicks on the clock's button, the calls of Timer.start()
\* and Timer.stop() and the passing seconds interleave, totalSeconds stays
\* between 0 and the period and never grows while the page is loaded; at most
\* one interval is live, and one is live exactly while isRunning; a tick at 0
\* stops the timer and leaves totalSeconds at 0; Timer.start() while running
\* changes nothing.
C14_ClockCountsDownToZero ==
    /\ [](/\ Timer.totalSeconds \in 0..TimerStart
          /\ Cardinality(intervals) <= 1
          /\ Timer.isRunning = (intervals # {})
          /\ \A handle \in intervals : Timer.interval = Num(handle))
    /\ [][(pc = "ready" /\ pc' = "ready") =>
            Timer'.totalSeconds <= Timer.totalSeconds]_vars
    /\ [][\A handle \in intervals :
            (TimerTick(handle) /\ Timer.totalSeconds = 0) =>
               /\ ~Timer'.isRunning
               /\ Timer'.totalSeconds = 0
               /\ intervals' = {}]_vars
    /\ [][(TimerStartCall /\ Timer.isRunning) => UNCHANGED <<Timer, intervals>>]_vars

\* The tick at 0:00 has stopped the timer.
C14_Witness ==
    /\ lastCall.op = "Timer.tick"
    /\ Timer.totalSeconds = 0
    /\ ~Timer.isRunning
    /\ intervals = {}

\* The selected player is a player of the roster of the pad's team.
SelectionOnPadTeam ==
    \/ UI.selectedPlayerId = Null
    \/ \E i \in Roster : /\ UI.selectedPlayerId = Num(data.players[i].id)
                         /\ data.players[i].team = UI.activeTeamForPad

\* C15: while the page is loaded, the selected player is none or a player
\* of the roster whose team is the team of the pad; an entry that the action
\* pad or the court click appends is of the selected player and of the pad's
\* team; and with no player selected neither changes the session or the
\* snapshot.
C15_SelectionOnPadTeam ==
    /\ [](pc = "ready" => SelectionOnPadTeam)
    /\ [][/\ Recorded =>
                 \A kind \in ActionKinds, point \in CourtPoints :
                   (ActionPadClick(kind) \/ CourtClick(point)) =>
                     /\ UI.selectedPlayerId = Num(data'.log[Len(data'.log)].playerId)
                     /\ data'.log[Len(data'.log)].team = UI.activeTeamForPad
          /\ (/\ UI.selectedPlayerId = Null
              /\ data' # data \/ storage' # storage) =>
                 \A kind \in ActionKinds, point \in CourtPoints :
                   ~(ActionPadClick(kind) \/ CourtClick(point))]_vars

\* With the pad on the visitor and a visitor selected, the last entry of the
\* ledger is an action of that player, logged for the visitor.
C15_Witness ==
    /\ pc = "ready"
    /\ UI.activeTeamForPad = "visitor"
    /\ UI.selectedPlayerId # Null
    /\ lastCall.op = "recordAction" /\ lastCall.found
    /\ data.log # << >>
    /\ UI.selectedPlayerId = Num(data.log[Len(data.log)].playerId)
    /\ data.log[Len(data.log)].team = "visitor"

====
